---- MODULE Spec2Model ----
(***************************************************************************)
(* YR-Trans: the checkpointed three-stage pipeline run by ProcessThread    *)
(* (trans_hub.py and lg_transhub.py) and the TransHub widget that starts   *)
(* and stops it (trans_hub.py).                                            *)
(*                                                                         *)
(* Spec     - one ProcessThread at a time on a project directory, started  *)
(*            by a caller that keeps the single-writer discipline; the     *)
(*            caller may request cancellation, terminate the thread, or    *)
(*            the whole process may crash.                                  *)
(* SpecHub  - the TransHub widget of trans_hub.py: project table,          *)
(*            Start/Stop/Refresh buttons, queued finished/error signals,   *)
(*            and the threads it starts.                                   *)
(* SpecPairs - the enumeration of comparison pairs in pydeseq2_analysis,   *)
(*            run twice over one experimental design.                      *)
(* SpecData  - the path of the samples of one project from the New Project *)
(*            dialog through the BAM files and the columns of counts.txt   *)
(*            to the columns of the expression and DESeq2 tables.          *)
(* SpecQuant - the TPM/FPKM computation of _calculate_expression_values    *)
(*            and the zero-row filter, on one count table and one gene     *)
(*            length table.                                                *)
(***************************************************************************)
EXTENDS Integers, Sequences, FiniteSets, TLC

\* ---------------------------------------------------------------- bounds
NumProjects == 2
NumSamples == 2
MaxThreads == 2
MaxRuns == 3
MaxHubRuns == 2
MaxFaults == 1

Projects == 1 .. NumProjects
Samples == 1 .. NumSamples
Threads == 1 .. MaxThreads

\* ------------------------------------------------------- stages and dicts
\* a variant of run() that consults the count stage before the align stage
StageOrderSwapped == <<"feature_counts", "hisat2_align", "pydeseq2_analysis">>

\* the checkpoint keys, in the order run() consults them
StageOrder == <<"hisat2_align", "feature_counts", "pydeseq2_analysis">>

Stages == {StageOrder[k] : k \in 1 .. 3}

StageIndex(s) == CHOOSE k \in 1 .. 3 : StageOrder[k] = s

\* a python dict with keys among the stage names and boolean values
Dicts == UNION {[D -> BOOLEAN] : D \in SUBSET Stages}

EmptyDict == [s \in {} |-> TRUE]

\* checkpoint.get(key, False)
CheckpointGet(d, key) == IF key \in DOMAIN d THEN d[key] ELSE FALSE

\* checkpoint[key] = True
CheckpointSet(d, key) == [s \in (DOMAIN d) \cup {key} |-> IF s = key THEN TRUE ELSE d[s]]

\* the keys whose value is True
Trues(d) == {s \in DOMAIN d : d[s]}

\* checkpoint.json on disk: missing, unparsable (truncated by open(..., 'w')
\* or partially written), or the JSON text of a dict
AbsentFile == [kind |-> "absent", data |-> EmptyDict]

CorruptFile == [kind |-> "corrupt", data |-> EmptyDict]

JsonFile(d) == [kind |-> "json", data |-> d]

FileTrues(f) == IF f.kind = "json" THEN Trues(f.data) ELSE {}

VARIABLES
  module,                \* which source file's ProcessThread runs
  checkpoint_file,       \* project -> contents of <project>/checkpoint.json
  bam_files,             \* project -> samples with a .bam in bam_files/
  th,                    \* thread id -> ProcessThread object and its run
  nruns,                 \* ProcessThread objects started so far
  crashSaved,            \* project -> stages checkpointed by the latest run, if a crash cut it
  everTrue,              \* project -> stages ever true in a persisted checkpoint
  nfaults,               \* file operations that have raised so far
  projects,              \* TransHub.projects: project -> data['status']
  project_json,          \* project -> status stored in project.json
  selected_project_row,  \* 0 stands for -1 (no selection)
  process_btn,           \* Start Processing enabled
  stop_btn,              \* Stop Processing enabled
  process_thread,        \* TransHub.process_thread: thread id, 0 for None
  sigq,                  \* queued finished/error signals for the GUI thread
  hubpc,                 \* position of the GUI thread inside stop_process
  design,                \* design_df: sample -> condition label
  conditions,            \* execution -> list(set(design_df["condition"])), <<>> before it
  comparisons,           \* execution -> the comparison pairs in the order they were made
  result_files,          \* execution -> the <tag>_results.txt files it has written
  all_results,           \* execution -> the rows of the combined table
  count_data,            \* rows of the count table: gene id and the selected columns
  gene_lengths,          \* gene id -> summed exon length, for the genes of the GTF
  has_meta,              \* the selected columns include Chr, Start, End, Strand
  tables,                \* file name -> the table written to it
  quant_status,          \* "none", or how the expression computation ended
  quant_errors,          \* error messages the expression computation has reported
  dialog_samples,        \* NewProjectDialog.samples: the names, in the order they were added
  project_samples,       \* project_data['samples']: the names, in list order
  data_pc,               \* how far the project of SpecData has come
  bam_dir,               \* bam_files/: sample name of <name>.bam -> the sample that was aligned into it
  count_header,          \* the column headers of counts.txt
  expr_header,           \* the column headers of counts_tpm.txt and counts_fpkm.txt
  de_columns             \* the columns of count_df after pydeseq2_analysis relabelled them

engineVars == <<module, checkpoint_file, bam_files, th, nruns, crashSaved, everTrue, nfaults>>

hubVars == <<projects, project_json, selected_project_row, process_btn, stop_btn,
             process_thread, sigq, hubpc>>

pairVars == <<design, conditions, comparisons, result_files, all_results>>

quantVars == <<count_data, gene_lengths, has_meta, tables, quant_status, quant_errors>>

dataVars == <<dialog_samples, project_samples, data_pc, bam_dir, count_header, expr_header,
              de_columns>>

vars == <<module, checkpoint_file, bam_files, th, nruns, crashSaved, everTrue, nfaults,
          projects, project_json, selected_project_row, process_btn, stop_btn,
          process_thread, sigq, hubpc, design, conditions, comparisons,
          result_files, all_results,
          count_data, gene_lengths, has_meta, tables, quant_status, quant_errors,
          dialog_samples, project_samples, data_pc, bam_dir, count_header, expr_header,
          de_columns>>

\* the pipeline and the GUI touch neither the design nor the expression tables
\* of the sections below
pureQuiet == UNCHANGED <<pairVars, quantVars, dataVars>>

\* a table file that has not been written
NoHeader == [written |-> FALSE, columns |-> <<>>]

\* no New Project dialog is open and no project of SpecData exists
DataIdle ==
  /\ dialog_samples = <<>>
  /\ project_samples = <<>>
  /\ data_pc = "idle"
  /\ bam_dir = <<>>
  /\ count_header = <<>>
  /\ expr_header = NoHeader
  /\ de_columns = <<>>

\* two executions of pydeseq2_analysis, each in a Python process of its own
Execs == {1, 2}

\* no design has been read and no execution has enumerated its pairs
PairsIdle ==
  /\ design = <<>>
  /\ conditions = [e \in Execs |-> <<>>]
  /\ comparisons = [e \in Execs |-> <<>>]
  /\ result_files = [e \in Execs |-> {}]
  /\ all_results = [e \in Execs |-> <<>>]

\* the four files _calculate_expression_values writes next to counts.txt
TableNames == {"counts_tpm", "counts_tpm_filtered", "counts_fpkm", "counts_fpkm_filtered"}

\* a file that has not been written
NoTable == [written |-> FALSE, rows |-> <<>>]

\* DataFrame.to_csv: the file holds the rows of the table
ToCsv(df) == [written |-> TRUE, rows |-> df]

\* no count table has been read and no expression table written
QuantIdle ==
  /\ count_data = <<>>
  /\ gene_lengths = <<>>
  /\ has_meta = FALSE
  /\ tables = [f \in TableNames |-> NoTable]
  /\ quant_status = "none"
  /\ quant_errors = 0

\* ------------------------------------------------------ ProcessThread
\* a ProcessThread that has not been constructed yet
NoThread ==
  [pc |-> "none", proj |-> 0, connected |-> FALSE, is_running |-> TRUE,
   checkpoint |-> EmptyDict, k |-> 0, i |-> 0,
   loaded |-> EmptyDict, file0 |-> AbsentFile, snap |-> AbsentFile,
   started |-> <<>>, succeeded |-> {}, saved |-> {}, calls |-> <<>>,
   errors |-> 0, finished |-> 0, outcome |-> "none",
   ioFault |-> FALSE, wfail |-> FALSE, mustSkip |-> {}, sam |-> {},
   counted |-> "none", quant |-> "none"]

\* ProcessThread.__init__ followed by QThread.start()
NewThread(p, conn) ==
  [NoThread EXCEPT !.pc = "load", !.proj = p, !.connected = conn,
                   !.file0 = checkpoint_file[p],
                   !.mustSkip = crashSaved[p]]

Alive(t) == th[t].pc \notin {"none", "dead"}

\* a variant of run() that ignores the checkpoint
NeverSkipped(d, s) == FALSE

\* `if not checkpoint.get(stage, False)` is false: the stage is skipped
StageSkipped(d, s) == CheckpointGet(d, s)

\* first position inside the executor of a stage
Entry(s) ==
  CASE s = "hisat2_align" -> "al_loop"
    [] s = "feature_counts" -> "fc"
    [] s = "pydeseq2_analysis" -> "de"

\* a variant of a failing executor that returns False without error.emit
FailSilently(r) == [r EXCEPT !.pc = "dead", !.outcome = "failed"]

\* a variant of a failing executor that emits the error and carries on
FailAndContinue(r) == [r EXCEPT !.outcome = "failed", !.errors = @ + 1]

\* self.error.emit(...) followed by `return False` and run()'s `return`
Fail(r) == [r EXCEPT !.pc = "dead", !.outcome = "failed", !.errors = @ + 1]

\* self.finished.emit("Analysis workflow completed")
Finish(r) == [r EXCEPT !.pc = "dead", !.outcome = "finished", !.finished = @ + 1]

\* the statement after save_checkpoint: the next stage's test, or the end of run()
AfterSave(r) == IF r.k < 3 THEN [r EXCEPT !.pc = "gate", !.k = @ + 1] ELSE [r EXCEPT !.pc = "post"]

\* a variant of save_checkpoint whose exception leaves run()
WriteFailureEndsRun(r) == [r EXCEPT !.wfail = TRUE, !.pc = "dead", !.outcome = "failed", !.errors = @ + 1]

\* save_checkpoint's `except Exception`: the failure is logged on the console
\* and run() goes on with the dict it holds
WriteFailed(r) == AfterSave([r EXCEPT !.wfail = TRUE])

\* a variant of save_checkpoint that dumps an empty dict
DumpedEmpty(d) == JsonFile(EmptyDict)

\* what json.dump leaves in checkpoint.json when it completes
DumpedFile(d) == JsonFile(d)

\* a variant of the align loop in which the SAM file is gone before the sort
SamDeletedAtOnce(sam, i) == sam \ {i}

\* HISAT2 has written <sample_name>.sam (-S sam_file)
SamWritten(sam, i) == sam \cup {i}

\* os.remove(sam_file) after the sort; a removal that raises is only a warning
\* and leaves the file
SamRemoved(sam, i, ok) == IF ok THEN sam \ {i} ELSE sam

\* subprocess.run(cmd, ...) of an external tool, recorded in the run's log
Invoke(r, tool) == [r EXCEPT !.calls = Append(@, tool)]

\* one step of thread t: its new object, and the signal it emits (if connected)
Step(t, r, sig) ==
  /\ th' = [th EXCEPT ![t] = r]
  /\ sigq' = IF sig # "none" /\ th[t].connected THEN Append(sigq, <<sig, t>>) ELSE sigq

\* the outcomes of a file operation: it completes, or (while the fault budget
\* lasts) it raises
IoOutcomes == IF nfaults < MaxFaults THEN BOOLEAN ELSE {TRUE}

Io(ok) == nfaults' = IF ok THEN nfaults ELSE nfaults + 1

hubQuiet ==
  /\ UNCHANGED <<projects, project_json, selected_project_row, process_btn, stop_btn,
                 process_thread, hubpc>>
  /\ pureQuiet

\* checkpoint = self.load_checkpoint(): {} when the file is missing or cannot
\* be opened or parsed
load_checkpoint(t) ==
  /\ th[t].pc = "load"
  /\ LET f == checkpoint_file[th[t].proj] IN
     \E ok \in IoOutcomes :
       LET d == IF ok /\ f.kind = "json" THEN f.data ELSE EmptyDict IN
       /\ f.kind # "json" => ok
       /\ Io(ok)
       /\ Step(t, [th[t] EXCEPT !.pc = "gate", !.k = 1, !.checkpoint = d, !.loaded = d,
                                !.ioFault = ~ok], "none")
  /\ UNCHANGED <<module, checkpoint_file, bam_files, nruns, crashSaved, everTrue>>
  /\ hubQuiet

\* run(): `if not checkpoint.get(<stage>, False): self.progress.emit(...)`
Gate(t) ==
  /\ th[t].pc = "gate"
  /\ LET r == th[t]
         s == StageOrder[r.k] IN
     IF StageSkipped(r.checkpoint, s)
       THEN Step(t, IF r.k < 3 THEN [r EXCEPT !.k = @ + 1] ELSE [r EXCEPT !.pc = "post"], "none")
       ELSE Step(t, [r EXCEPT !.pc = Entry(s), !.i = 1, !.started = Append(@, s),
                              !.snap = checkpoint_file[r.proj]], "none")
  /\ UNCHANGED <<module, checkpoint_file, bam_files, nruns, crashSaved, everTrue, nfaults>>
  /\ hubQuiet

\* hisat2_align: before the first sample the two executables are looked up;
\* then, per sample, the is_running poll and subprocess.run of HISAT2
hisat2_align(t) ==
  /\ th[t].pc = "al_loop"
  /\ LET r == th[t] IN
     \E found \in BOOLEAN, rc \in {0, 1} :
       /\ r.i # 1 => found
       /\ (~found \/ r.i > NumSamples \/ ~r.is_running) => rc = 0
       /\ IF ~found
            THEN Step(t, Fail(r), "error")
            ELSE IF r.i > NumSamples
              THEN Step(t, [r EXCEPT !.pc = "save_open"], "none")
              ELSE IF ~r.is_running
                THEN Step(t, [r EXCEPT !.pc = "dead", !.outcome = "cancelled"], "none")
                ELSE IF rc # 0
                  THEN Step(t, Fail(Invoke(r, "hisat2")), "error")
                  ELSE Step(t, [Invoke(r, "hisat2") EXCEPT !.pc = "al_sort",
                                                             !.sam = SamWritten(@, r.i)], "none")
  /\ UNCHANGED <<module, checkpoint_file, bam_files, nruns, crashSaved, everTrue, nfaults>>
  /\ hubQuiet

\* hisat2_align: samtools sort on the sample's SAM file; on status 0 the
\* sample's .bam exists and the SAM file is removed (best effort)
samtools_sort(t) ==
  /\ th[t].pc = "al_sort"
  /\ \E rc \in {0, 1}, removed \in IoOutcomes :
       /\ rc # 0 => removed
       /\ Io(removed)
       /\ IF rc # 0
            THEN Step(t, Fail(Invoke(th[t], "samtools")), "error") /\ UNCHANGED bam_files
            ELSE /\ Step(t, [Invoke(th[t], "samtools") EXCEPT
                               !.pc = "al_loop", !.i = @ + 1,
                               !.sam = SamRemoved(@, th[t].i, removed)], "none")
                 /\ bam_files' = [bam_files EXCEPT ![th[t].proj] = @ \cup {th[t].i}]
  /\ UNCHANGED <<module, checkpoint_file, nruns, crashSaved, everTrue>>
  /\ hubQuiet

\* a variant of feature_counts that returns False when the expression values
\* could not be computed
QuantFailureFails(r, values) ==
  IF module = "lg_transhub" /\ ~values
    THEN [r EXCEPT !.quant = "failed", !.pc = "dead", !.outcome = "failed"]
    ELSE [r EXCEPT !.pc = "save_open"]

\* the end of feature_counts after status 0: lg_transhub calls
\* _calculate_expression_values and logs a warning when it returns False;
\* either way the stage returns True
Counted(r, values) ==
  IF module = "lg_transhub"
    THEN [r EXCEPT !.quant = IF values THEN "ok" ELSE "failed", !.pc = "save_open"]
    ELSE [r EXCEPT !.pc = "save_open"]

\* feature_counts: executable, annotation file and BAM files are checked, then
\* featureCounts is run once over all BAM files; on status 0 the stage returns
\* True (in lg_transhub after _calculate_expression_values, whose failure is
\* only a warning)
feature_counts(t) ==
  /\ th[t].pc = "fc"
  /\ \E present \in BOOLEAN, rc \in {0, 1}, values \in BOOLEAN :
       /\ ~(present /\ bam_files[th[t].proj] # {}) => rc = 0
       /\ ~(present /\ bam_files[th[t].proj] # {} /\ rc = 0 /\ module = "lg_transhub") => values
       /\ IF ~(present /\ bam_files[th[t].proj] # {})
            THEN Step(t, Fail([th[t] EXCEPT !.counted = "no_input"]), "error")
            ELSE IF rc # 0
              THEN Step(t, Fail([Invoke(th[t], "featureCounts") EXCEPT
                                   !.counted = "rc_nonzero"]), "error")
              ELSE Step(t, Counted([Invoke(th[t], "featureCounts") EXCEPT
                                      !.counted = "rc_zero"], values), "none")
  /\ UNCHANGED <<module, checkpoint_file, bam_files, nruns, crashSaved, everTrue, nfaults>>
  /\ hubQuiet

\* pydeseq2_analysis: import, count file and design are checked, then the
\* PyDESeq2 library computes the tables: True, or an exception
pydeseq2_analysis(t) ==
  /\ th[t].pc = "de"
  /\ \E ready \in BOOLEAN, ok \in BOOLEAN :
       /\ ~ready => ok
       /\ IF ~ready
            THEN Step(t, Fail(th[t]), "error")
            ELSE IF ~ok
              THEN Step(t, Fail(Invoke(th[t], "pydeseq2")), "error")
              ELSE Step(t, [Invoke(th[t], "pydeseq2") EXCEPT !.pc = "save_open"], "none")
  /\ UNCHANGED <<module, checkpoint_file, bam_files, nruns, crashSaved, everTrue, nfaults>>
  /\ hubQuiet

\* `checkpoint[<stage>] = True`, then save_checkpoint up to open(..., 'w'),
\* which truncates the file; an open that raises leaves the file as it was
save_checkpoint_open(t) ==
  /\ th[t].pc = "save_open"
  /\ LET r == th[t]
         s == StageOrder[r.k]
         r1 == [r EXCEPT !.checkpoint = CheckpointSet(@, s), !.succeeded = @ \cup {s}] IN
     \E ok \in IoOutcomes :
       /\ Io(ok)
       /\ IF ok
            THEN /\ Step(t, [r1 EXCEPT !.pc = "save_dump"], "none")
                 /\ checkpoint_file' = [checkpoint_file EXCEPT ![r.proj] = CorruptFile]
            ELSE /\ Step(t, WriteFailed(r1), "none")
                 /\ UNCHANGED checkpoint_file
  /\ UNCHANGED <<module, bam_files, nruns, crashSaved, everTrue>>
  /\ hubQuiet

\* json.dump(checkpoint, f) and the close of the file; a dump that raises
\* leaves the truncated or partial file behind
save_checkpoint_dump(t) ==
  /\ th[t].pc = "save_dump"
  /\ LET r == th[t]
         s == StageOrder[r.k] IN
     \E ok \in IoOutcomes :
       /\ Io(ok)
       /\ IF ok
            THEN /\ Step(t, AfterSave([r EXCEPT !.saved = @ \cup {s}]), "none")
                 /\ checkpoint_file' = [checkpoint_file EXCEPT ![r.proj] = DumpedFile(r.checkpoint)]
                 /\ everTrue' = [everTrue EXCEPT ![r.proj] = @ \cup FileTrues(DumpedFile(r.checkpoint))]
            ELSE /\ Step(t, WriteFailed(r), "none")
                 /\ UNCHANGED <<checkpoint_file, everTrue>>
  /\ UNCHANGED <<module, bam_files, nruns, crashSaved>>
  /\ hubQuiet

\* what create_gitignore_and_commit runs: nothing when git cannot be started
\* (a warning), `git add .` alone when it exits non-zero (CalledProcessError is
\* passed over), else `git add .` and `git commit`
GitOutcomes == {<<>>, <<"git">>, <<"git", "git">>}

\* a variant in which the run() of trans_hub.py ends with the commit step too
CommitAlways == GitOutcomes

\* trans_hub.py has no commit step
CommitCalls == IF module = "lg_transhub" THEN GitOutcomes ELSE {<<>>}

\* the end of run(): the commit step of lg_transhub, then finished is emitted
run_end(t) ==
  /\ th[t].pc = "post"
  /\ \E git \in CommitCalls : Step(t, Finish([th[t] EXCEPT !.calls = @ \o git]), "finished")
  /\ UNCHANGED <<module, checkpoint_file, bam_files, nruns, crashSaved, everTrue, nfaults>>
  /\ hubQuiet

\* every step of ProcessThread.run
Worker(t) ==
  \/ load_checkpoint(t)
  \/ Gate(t)
  \/ hisat2_align(t)
  \/ samtools_sort(t)
  \/ feature_counts(t)
  \/ pydeseq2_analysis(t)
  \/ save_checkpoint_open(t)
  \/ save_checkpoint_dump(t)
  \/ run_end(t)

\* ------------------------------------------------- the caller of Spec
\* the project directory and the thread object the caller of Spec works with
\* (project directories share nothing)
RunProject == 1

RunThread == 1

\* a caller constructs a ProcessThread on the project and starts it, one run
\* at a time; the previous thread object is dropped
StartRun ==
  /\ nruns < MaxRuns
  /\ ~Alive(RunThread)
  /\ nruns' = nruns + 1
  /\ th' = [th EXCEPT ![RunThread] = NewThread(RunProject, FALSE)]
  /\ crashSaved' = [crashSaved EXCEPT ![RunProject] = {}]
  /\ UNCHANGED <<module, checkpoint_file, bam_files, everTrue, nfaults>>
  /\ UNCHANGED hubVars
  /\ pureQuiet

\* `thread.is_running = False`
RequestStop(t) ==
  /\ Alive(t)
  /\ th[t].is_running
  /\ th' = [th EXCEPT ![t].is_running = FALSE]
  /\ UNCHANGED <<module, checkpoint_file, bam_files, nruns, crashSaved, everTrue, nfaults>>
  /\ UNCHANGED hubVars
  /\ pureQuiet

\* `thread.terminate(); thread.wait()`: the thread is killed where it stands
Terminate(t) ==
  /\ Alive(t)
  /\ ~th[t].is_running
  /\ th' = [th EXCEPT ![t].pc = "dead", ![t].outcome = "terminated"]
  /\ UNCHANGED <<module, checkpoint_file, bam_files, nruns, crashSaved, everTrue, nfaults>>
  /\ UNCHANGED hubVars
  /\ pureQuiet

\* the process dies (power loss, kill) while thread t is running
Crash(t) ==
  /\ Alive(t)
  /\ th' = [th EXCEPT ![t].pc = "dead", ![t].outcome = "crashed"]
  /\ crashSaved' = [crashSaved EXCEPT ![th[t].proj] = th[t].saved]
  /\ UNCHANGED <<module, checkpoint_file, bam_files, nruns, everTrue, nfaults>>
  /\ UNCHANGED hubVars
  /\ pureQuiet

\* the checkpoint files a project directory can hold when a run starts: none,
\* one with all three keys, or one the engine wrote (true keys only)
InitialFiles ==
  {AbsentFile} \cup {JsonFile(d) : d \in {e \in Dicts : DOMAIN e = Stages \/ Trues(e) = DOMAIN e}}

InitEngine ==
  /\ module \in {"trans_hub", "lg_transhub"}
  /\ checkpoint_file \in [Projects -> InitialFiles]
  /\ \A p \in Projects : p # RunProject => checkpoint_file[p] = AbsentFile
  /\ bam_files = [p \in Projects |->
                    IF "hisat2_align" \in FileTrues(checkpoint_file[p]) THEN Samples ELSE {}]
  /\ th = [t \in Threads |-> NoThread]
  /\ nruns = 0
  /\ nfaults = 0
  /\ crashSaved = [p \in Projects |-> {}]
  /\ everTrue = [p \in Projects |-> FileTrues(checkpoint_file[p])]

InitHub ==
  /\ projects = [p \in Projects |-> "unprocessed"]
  /\ project_json = [p \in Projects |-> "unprocessed"]
  /\ selected_project_row = 0
  /\ process_btn = FALSE
  /\ stop_btn = FALSE
  /\ process_thread = 0
  /\ sigq = <<>>
  /\ hubpc = "idle"

Init == InitEngine /\ InitHub /\ PairsIdle /\ QuantIdle /\ DataIdle

Next ==
  \/ StartRun
  \/ \E t \in Threads : Worker(t)
  \/ \E t \in Threads : RequestStop(t)
  \/ \E t \in Threads : Terminate(t)
  \/ \E t \in Threads : Crash(t)

Spec == Init /\ [][Next]_vars

\* ------------------------------------------------------------ TransHub
engineQuiet ==
  /\ UNCHANGED <<module, checkpoint_file, bam_files, everTrue>>
  /\ pureQuiet

\* the statuses for which on_project_selected enables Start Processing
Startable == {"unprocessed", "pending", "paused"}

\* a ProcessThread object that has ended: none of its fields is read again
Dropped(r) == [NoThread EXCEPT !.pc = "dead", !.proj = r.proj]

\* thread ids that can name a new ProcessThread object
FreeThreads == {t \in Threads : ~Alive(t) /\ \A n \in 1 .. Len(sigq) : sigq[n][2] # t}

\* the user changes the selection of the projects table (row 0: none)
on_project_selected(row) ==
  /\ hubpc = "idle"
  /\ row # selected_project_row
  /\ selected_project_row' = row
  /\ process_btn' = IF row = 0 THEN FALSE ELSE projects[row] \in Startable
  /\ UNCHANGED <<projects, project_json, stop_btn, process_thread, sigq, hubpc>>
  /\ UNCHANGED <<th, crashSaved, nfaults>>
  /\ UNCHANGED nruns
  /\ engineQuiet

\* Start Processing is clicked: the selected project is marked 'processing',
\* project.json is rewritten (a failure is logged), and a ProcessThread is
\* constructed, connected and started
process_project ==
  /\ hubpc = "idle"
  /\ process_btn
  /\ selected_project_row # 0
  /\ FreeThreads # {}
  /\ nruns < MaxHubRuns
  /\ nruns' = nruns + 1
  /\ LET p == selected_project_row
         new == CHOOSE t \in FreeThreads : \A u \in FreeThreads : t <= u IN
       /\ process_btn' = FALSE
       /\ stop_btn' = TRUE
       /\ projects' = [projects EXCEPT ![p] = "processing"]
       /\ \E saved \in IoOutcomes :
            /\ Io(saved)
            /\ project_json' = IF saved THEN [project_json EXCEPT ![p] = "processing"]
                               ELSE project_json
       /\ th' = [t \in Threads |->
                   IF t = new THEN NewThread(p, TRUE)
                   ELSE IF th[t].pc = "dead" /\ t \in FreeThreads THEN Dropped(th[t])
                   ELSE th[t]]
       /\ process_thread' = new
  /\ UNCHANGED <<selected_project_row, sigq, hubpc, crashSaved>>
  /\ engineQuiet

\* the body of on_process_finished: the buttons, then the SELECTED row is
\* marked 'completed' and its project.json rewritten
FinishedHandler ==
  /\ process_btn' = TRUE
  /\ stop_btn' = FALSE
  /\ IF selected_project_row # 0
       THEN /\ projects' = [projects EXCEPT ![selected_project_row] = "completed"]
            /\ \E saved \in IoOutcomes :
                 /\ Io(saved)
                 /\ project_json' = IF saved
                                      THEN [project_json EXCEPT ![selected_project_row] = "completed"]
                                      ELSE project_json
       ELSE UNCHANGED <<projects, project_json, nfaults>>

\* the body of on_process_error: the buttons, then the SELECTED row is marked
\* 'error' in memory only
ErrorHandler ==
  /\ process_btn' = TRUE
  /\ stop_btn' = FALSE
  /\ projects' = IF selected_project_row # 0
                   THEN [projects EXCEPT ![selected_project_row] = "error"] ELSE projects
  /\ UNCHANGED <<project_json, nfaults>>

\* Stop Processing is clicked while the thread runs: `is_running = False`
stop_process ==
  /\ hubpc = "idle"
  /\ stop_btn
  /\ process_thread # 0
  /\ Alive(process_thread)
  /\ th' = [th EXCEPT ![process_thread].is_running = FALSE]
  /\ hubpc' = "stopping"
  /\ UNCHANGED <<projects, project_json, selected_project_row, process_btn, stop_btn,
                 process_thread, sigq>>
  /\ UNCHANGED <<crashSaved, nfaults>>
  /\ UNCHANGED nruns
  /\ engineQuiet

\* the rest of stop_process: terminate(), wait(), on_process_finished(...)
stop_process_terminate ==
  /\ hubpc = "stopping"
  /\ LET t == process_thread IN
       /\ th' = [th EXCEPT ![t] = IF Alive(t) THEN [Dropped(@) EXCEPT !.outcome = "terminated"] ELSE @]
  /\ FinishedHandler
  /\ hubpc' = "idle"
  /\ UNCHANGED <<selected_project_row, process_thread, sigq>>
  /\ UNCHANGED <<nruns, crashSaved>>
  /\ engineQuiet

\* the GUI thread handles the oldest queued finished signal
on_process_finished ==
  /\ hubpc = "idle"
  /\ sigq # <<>>
  /\ Head(sigq)[1] = "finished"
  /\ sigq' = Tail(sigq)
  /\ FinishedHandler
  /\ UNCHANGED <<selected_project_row, process_thread, hubpc>>
  /\ th' = [th EXCEPT ![Head(sigq)[2]] = Dropped(@)]
  /\ UNCHANGED crashSaved
  /\ UNCHANGED nruns
  /\ engineQuiet

\* the GUI thread handles the oldest queued error signal
on_process_error ==
  /\ hubpc = "idle"
  /\ sigq # <<>>
  /\ Head(sigq)[1] = "error"
  /\ sigq' = Tail(sigq)
  /\ ErrorHandler
  /\ UNCHANGED <<selected_project_row, process_thread, hubpc>>
  /\ th' = [th EXCEPT ![Head(sigq)[2]] = Dropped(@)]
  /\ UNCHANGED crashSaved
  /\ UNCHANGED nruns
  /\ engineQuiet

\* Refresh is clicked: the table is emptied (which clears the selection and so
\* runs on_project_selected) and self.projects is read again from project.json
load_projects ==
  /\ hubpc = "idle"
  /\ projects' = project_json
  /\ selected_project_row' = 0
  /\ process_btn' = IF selected_project_row # 0 THEN FALSE ELSE process_btn
  /\ UNCHANGED <<project_json, stop_btn, process_thread, sigq, hubpc>>
  /\ UNCHANGED <<th, crashSaved, nfaults>>
  /\ UNCHANGED nruns
  /\ engineQuiet

\* TransHub.__init__ on freshly created projects: status 'unprocessed', no
\* checkpoint.json yet; the threads are the ProcessThread of trans_hub.py
InitHubSpec ==
  /\ InitEngine
  /\ module = "trans_hub"
  /\ \A p \in Projects : checkpoint_file[p] = AbsentFile
  /\ InitHub
  /\ PairsIdle
  /\ QuantIdle
  /\ DataIdle

NextHub ==
  \/ \E row \in 0 .. NumProjects : on_project_selected(row)
  \/ process_project
  \/ stop_process
  \/ stop_process_terminate
  \/ on_process_finished
  \/ on_process_error
  \/ load_projects
  \/ \E t \in Threads : Worker(t)

SpecHub == InitHubSpec /\ [][NextHub]_vars

\* ------------------------------------------------- comparison pairs
\* the pipeline at rest: no project is processed while the sections below run
PipelineIdle ==
  /\ InitEngine
  /\ module = "lg_transhub"
  /\ \A p \in Projects : checkpoint_file[p] = AbsentFile
  /\ InitHub

MaxDesignRows == 3

\* the condition labels a design can give its samples
Labels == {"X", "Y", "Z"}

\* design_df["condition"]: one label for each sample row of the design file
Designs == UNION {[1 .. n -> Labels] : n \in 1 .. MaxDesignRows}

\* the orders in which list(set(...)) can return the elements of S: the
\* iteration order of a set of str follows the hashes of its elements, which
\* CPython salts anew for every process
ListOfSet(S) == {q \in [1 .. Cardinality(S) -> S] : {q[n] : n \in DOMAIN q} = S}

\* a variant of the loops whose inner index starts at i instead of i + 1
PairsWithSelf(c) ==
  LET n == Len(c)
      row(i) == [j \in 1 .. (n - i + 1) |-> <<c[i], c[i + j - 1]>>]
      RECURSIVE all(_)
      all(i) == IF i > n THEN <<>> ELSE row(i) \o all(i + 1)
  IN  IF n >= 2 THEN all(1) ELSE <<>>

\* for i in range(len(conditions)): for j in range(i + 1, len(conditions)):
\* the pairs (conditions[i], conditions[j]) in the order the loops make them;
\* none when there are fewer than two conditions
PairsFrom(c) ==
  LET n == Len(c)
      row(i) == [j \in 1 .. (n - i) |-> <<c[i], c[i + j]>>]
      RECURSIVE all(_)
      all(i) == IF i > n THEN <<>> ELSE row(i) \o all(i + 1)
  IN  IF n >= 2 THEN all(1) ELSE <<>>

\* f"{cond1}_vs_{cond2}": the value of the 'comparison' column
ComparisonTag(pair) == <<pair[1], "_vs_", pair[2]>>

\* f"{cond1}_vs_{cond2}_results.txt": the file the pair's results go to
ResultsFile(pair) == ComparisonTag(pair) \o <<"_results.txt">>

\* the gene ids DeseqStats can return results for: the index of the count table
ResultGenes == {<<"A">>, <<"A", "B">>}

\* stat_res.results_df with results['comparison'] = f"{cond1}_vs_{cond2}": one
\* row per gene, tagged with the pair
TaggedResults(pair, genes) ==
  [n \in DOMAIN genes |-> [geneid |-> genes[n], comparison |-> ComparisonTag(pair)]]

\* a variant of the combined table that keeps the results of the first pair only
CombinedOfFirst(pairs, genes) ==
  IF pairs = <<>> THEN <<>> ELSE TaggedResults(pairs[1], genes)

\* pd.concat(all_results, ignore_index=True) over the pairs of the second walk
RECURSIVE Combined(_, _)
Combined(pairs, genes) ==
  IF pairs = <<>> THEN <<>>
  ELSE TaggedResults(Head(pairs), genes) \o Combined(Tail(pairs), genes)

\* execution e of pydeseq2_analysis reaches the comparisons: it lists the
\* conditions of the design, walks the pairs once to write one results file
\* per pair and a second time to build the combined table
enumerate_pairs(e) ==
  /\ conditions[e] = <<>>
  /\ \E c \in ListOfSet({design[n] : n \in DOMAIN design}), genes \in ResultGenes :
       /\ conditions' = [conditions EXCEPT ![e] = c]
       /\ comparisons' = [comparisons EXCEPT ![e] = PairsFrom(c)]
       /\ result_files' = [result_files EXCEPT ![e] =
                             {ResultsFile(PairsFrom(c)[n]) : n \in DOMAIN PairsFrom(c)}]
       /\ all_results' = [all_results EXCEPT ![e] = Combined(PairsFrom(c), genes)]
  /\ UNCHANGED design
  /\ UNCHANGED <<quantVars, dataVars>>
  /\ UNCHANGED <<engineVars, hubVars>>

InitPairs ==
  /\ PipelineIdle
  /\ QuantIdle
  /\ DataIdle
  /\ design \in Designs
  /\ conditions = [e \in Execs |-> <<>>]
  /\ comparisons = [e \in Execs |-> <<>>]
  /\ result_files = [e \in Execs |-> {}]
  /\ all_results = [e \in Execs |-> <<>>]

NextPairs == \E e \in Execs : enumerate_pairs(e)

SpecPairs == InitPairs /\ [][NextPairs]_vars

\* ------------------------------------------- samples and columns
MaxSampleRows == 3

\* the names the user can type into the Add Sample dialog
SampleNames == {"a", "b", "c"}

\* a column of a table: Geneid, one of the columns featureCounts puts in
\* front of the counts, or the counts of one BAM file
Col(kind, name) == [kind |-> kind, name |-> name]

Geneid == Col("id", "Geneid")

\* the columns the drop of _calculate_expression_values names
DroppedCols == {Col("meta", "Chr"), Col("meta", "Start"), Col("meta", "End"),
                Col("meta", "Strand")}

\* the header of a featureCounts table in front of the count columns
FixedCols == <<Geneid, Col("meta", "Chr"), Col("meta", "Start"), Col("meta", "End"),
               Col("meta", "Strand"), Col("meta", "Length")>>

\* os.path.join(bam_dir, f"{sample_name}.bam"), as the header of its count column
BamCol(name) == Col("bam", name)

\* AddFastqDialog.accept and NewProjectDialog.add_sample: a non-empty name with
\* an R1 file is appended to the list
add_sample(name) ==
  /\ data_pc = "dialog"
  /\ Len(dialog_samples) < MaxSampleRows
  /\ dialog_samples' = Append(dialog_samples, name)
  /\ UNCHANGED <<project_samples, data_pc, bam_dir, count_header, expr_header, de_columns>>
  /\ UNCHANGED <<pairVars, quantVars>>
  /\ UNCHANGED <<engineVars, hubVars>>

\* NewProjectDialog.accept: with a workspace, a name, an index, an annotation,
\* at least one sample and a group for every row of the samples table, the
\* project is created with the samples as listed
accept ==
  /\ data_pc = "dialog"
  /\ dialog_samples # <<>>
  /\ project_samples' = dialog_samples
  /\ data_pc' = "created"
  /\ UNCHANGED <<dialog_samples, bam_dir, count_header, expr_header, de_columns>>
  /\ UNCHANGED <<pairVars, quantVars>>
  /\ UNCHANGED <<engineVars, hubVars>>

\* the BAM files hisat2_align leaves when every call exits with status 0:
\* sample k is sorted into <name of k>.bam, replacing the file of that name
RECURSIVE BamsOf(_)
BamsOf(names) ==
  IF names = <<>> THEN <<>>
  ELSE LET k == Len(names)
           before == BamsOf(SubSeq(names, 1, k - 1))
       IN  [n \in DOMAIN before \cup {names[k]} |-> IF n = names[k] THEN k ELSE before[n]]

\* hisat2_align returns True for the project
align_samples ==
  /\ data_pc = "created"
  /\ bam_dir' = BamsOf(project_samples)
  /\ data_pc' = "aligned"
  /\ UNCHANGED <<dialog_samples, project_samples, count_header, expr_header, de_columns>>
  /\ UNCHANGED <<pairVars, quantVars>>
  /\ UNCHANGED <<engineVars, hubVars>>

\* count_df.columns[1:-4]
CountColumns(header) == SubSeq(header, 2, Len(header) - 4)

\* tpm_df.insert(0, "Geneid", ...) and drop(columns=['Chr', 'Start', 'End',
\* 'Strand']), which raises KeyError unless all four are columns of the table
ExprHeader(selected) ==
  IF DroppedCols \subseteq {selected[n] : n \in DOMAIN selected}
    THEN LET Kept(c) == c \notin DroppedCols
         IN  [written |-> TRUE, columns |-> <<Geneid>> \o SelectSeq(selected, Kept)]
    ELSE NoHeader

\* feature_counts returns True for the project: the .bam files are passed to
\* featureCounts in the order os.listdir returns them, which is arbitrary;
\* counts.txt has the fixed columns followed by one column per file in that
\* order; _calculate_expression_values then selects and drops columns
count_samples ==
  /\ data_pc = "aligned"
  /\ \E listed \in ListOfSet(DOMAIN bam_dir) :
       LET header == FixedCols \o [n \in DOMAIN listed |-> BamCol(listed[n])] IN
       /\ count_header' = header
       /\ expr_header' = ExprHeader(CountColumns(header))
  /\ data_pc' = "counted"
  /\ UNCHANGED <<dialog_samples, project_samples, bam_dir, de_columns>>
  /\ UNCHANGED <<pairVars, quantVars>>
  /\ UNCHANGED <<engineVars, hubVars>>

\* count_df.iloc[:, -len(sample_names):] followed by count_df.columns =
\* sample_names: the last N columns after the index column, labelled with the
\* N sample names in list order
Relabelled(header, names) ==
  LET cols == Tail(header)
      N == Len(names)
      last == SubSeq(cols, Len(cols) - N + 1, Len(cols))
  IN  [n \in 1 .. N |-> [label |-> names[n], source |-> last[n]]]

\* pydeseq2_analysis reads counts.txt and relabels its columns
relabel_counts ==
  /\ data_pc = "counted"
  /\ de_columns' = Relabelled(count_header, project_samples)
  /\ data_pc' = "relabelled"
  /\ UNCHANGED <<dialog_samples, project_samples, bam_dir, count_header, expr_header>>
  /\ UNCHANGED <<pairVars, quantVars>>
  /\ UNCHANGED <<engineVars, hubVars>>

InitData ==
  /\ PipelineIdle
  /\ PairsIdle
  /\ QuantIdle
  /\ dialog_samples = <<>>
  /\ project_samples = <<>>
  /\ data_pc = "dialog"
  /\ bam_dir = <<>>
  /\ count_header = <<>>
  /\ expr_header = NoHeader
  /\ de_columns = <<>>

NextData ==
  \/ \E name \in SampleNames : add_sample(name)
  \/ accept
  \/ align_samples
  \/ count_samples
  \/ relabel_counts

SpecData == InitData /\ [][NextData]_vars

\* ----------------------------------------------- expression values
MaxCount == 1

\* the sample columns of the count table
SampleColumns == {"s1", "s2"}

\* the gene ids, in the order the count table and the GTF list them
GeneOrder == <<"A", "B", "C">>

GeneIds == {GeneOrder[n] : n \in DOMAIN GeneOrder}

\* _get_gene_lengths_from_gtf: the summed exon length (end - start + 1) of a gene
ExonLength(g) == CASE g = "A" -> 1000 [] g = "B" -> 2000 [] g = "C" -> 500

\* the dicts _get_gene_lengths_from_gtf can return: the genes of the GTF
LengthTables == {[g \in G |-> ExonLength(g)] : G \in SUBSET GeneIds}

\* the count tables over the genes G: one row per gene, in file order, holding
\* the gene id and the count of every sample column
RowsOver(G, Values) ==
  LET InG(g) == g \in G
      gs == SelectSeq(GeneOrder, InG)
  IN  {[k \in 1 .. Len(gs) |-> [gene |-> gs[k], counts |-> f[gs[k]]]] :
         f \in [G -> [SampleColumns -> Values]]}

CountTables == UNION {RowsOver(G, 0 .. MaxCount) : G \in SUBSET GeneIds}

\* the counts of the worked example
ExampleCounts ==
  <<[gene |-> "A", counts |-> [s1 |-> 100, s2 |-> 50]],
    [gene |-> "B", counts |-> [s1 |-> 200, s2 |-> 100]],
    [gene |-> "C", counts |-> [s1 |-> 0, s2 |-> 10]]>>

\* float64 values, kept exact: a reduced fraction with a positive denominator,
\* or one of the two results of a division by zero
NaN == [num |-> 0, den |-> 0]

Inf == [num |-> 1, den |-> 0]

RECURSIVE GCD(_, _)
GCD(a, b) == IF b = 0 THEN a ELSE GCD(b, a % b)

Frac(n, d) == LET g == GCD(n, d) IN [num |-> n \div g, den |-> d \div g]

Num(n) == [num |-> n, den |-> 1]

\* x / y on float64: 0/0 and anything with NaN give NaN, x/0 gives inf, and none
\* of them raises
Div(x, y) ==
  IF x = NaN \/ y = NaN THEN NaN
  ELSE IF y.num = 0 THEN (IF x.num = 0 THEN NaN ELSE Inf)
  ELSE Frac(x.num * y.den, x.den * y.num)

Add(x, y) ==
  LET l == (x.den * y.den) \div GCD(x.den, y.den)
  IN  Frac(x.num * (l \div x.den) + y.num * (l \div y.den), l)

\* DataFrame.sum(axis=0) of one column: NaN cells are skipped
RECURSIVE ColumnSum(_, _)
ColumnSum(col, n) ==
  IF n = 0 THEN Num(0)
  ELSE IF col[n] = NaN THEN ColumnSum(col, n - 1)
  ELSE Add(ColumnSum(col, n - 1), col[n])

Million == Num(1000000)

\* a variant of the join that loses the first matching gene
ValidRowsButFirst(cd) ==
  LET Known(row) == row.gene \in DOMAIN gene_lengths
      v == SelectSeq(cd, Known)
  IN  IF v = <<>> THEN v ELSE Tail(v)

\* valid_genes / valid_count_data: the rows of the count table whose gene id is
\* a key of gene_lengths, in the order of the count table
ValidRows(cd) == LET Known(row) == row.gene \in DOMAIN gene_lengths IN SelectSeq(cd, Known)

\* a variant of the test that lets an empty join through
NeverEmpty(valid) == FALSE

\* if not valid_genes
NoValidGenes(valid) == valid = <<>>

\* rpk = valid_count_data.div(lengths / 1000, axis=0)
Rpk(valid) ==
  [k \in DOMAIN valid |->
     [s \in SampleColumns |->
        Div(Num(valid[k].counts[s]), Div(Num(gene_lengths[valid[k].gene]), Num(1000)))]]

\* a variant of the TPM that scales by the total raw count of the joined rows
TpmByCounts(valid) ==
  LET rpk == Rpk(valid)
      total(s) == ColumnSum([k \in DOMAIN valid |-> Num(valid[k].counts[s])], Len(valid))
  IN  [k \in DOMAIN valid |->
         [gene |-> valid[k].gene,
          values |-> [s \in SampleColumns |-> Div(rpk[k][s], Div(total(s), Million))]]]

\* tpm = rpk.div(rpk.sum(axis=0) / 1e6, axis=1), with the Geneid column inserted
Tpm(valid) ==
  LET rpk == Rpk(valid)
      total(s) == ColumnSum([k \in DOMAIN valid |-> rpk[k][s]], Len(valid))
  IN  [k \in DOMAIN valid |->
         [gene |-> valid[k].gene,
          values |-> [s \in SampleColumns |-> Div(rpk[k][s], Div(total(s), Million))]]]

\* a variant of the depth that counts the joined rows only
TotalCountsOfValid(cd) ==
  LET v == ValidRows(cd)
  IN  [s \in SampleColumns |-> ColumnSum([k \in DOMAIN v |-> Num(v[k].counts[s])], Len(v))]

\* total_counts = count_data.sum(axis=0): count_data is the whole count table,
\* as read from the file
TotalCounts(cd) ==
  [s \in SampleColumns |-> ColumnSum([k \in DOMAIN cd |-> Num(cd[k].counts[s])], Len(cd))]

\* fpkm = rpk.div(total_counts / 1e6, axis=1), with the Geneid column inserted
Fpkm(valid, total_counts) ==
  LET rpk == Rpk(valid)
  IN  [k \in DOMAIN valid |->
         [gene |-> valid[k].gene,
          values |-> [s \in SampleColumns |-> Div(rpk[k][s], Div(total_counts[s], Million))]]]

\* a variant of the filter that keeps every row
NoZeroRow(row) == FALSE

\* zero_rows = (count_data == 0).all(axis=1), after to_numeric and fillna(0):
\* every value of the row is 0 or NaN
ZeroRow(row) == \A s \in SampleColumns : row.values[s] \in {Num(0), NaN}

\* _filter_zero_count_rows: df[~zero_rows]
filter_zero_count_rows(df) == LET Kept(row) == ~ZeroRow(row) IN SelectSeq(df, Kept)

quantQuiet ==
  /\ UNCHANGED <<count_data, gene_lengths, has_meta>>
  /\ UNCHANGED <<pairVars, dataVars>>
  /\ UNCHANGED <<engineVars, hubVars>>

\* ProcessThread._calculate_expression_values (lg_transhub.py): both tables and
\* their filtered variants, or an error message and False
calculate_expression_values ==
  /\ quant_status = "none"
  /\ LET valid == ValidRows(count_data) IN
     IF NoValidGenes(valid) \/ ~has_meta
       THEN \* no matching gene, or drop(columns=['Chr', ...]) raises KeyError
            \* before the first to_csv
            /\ quant_status' = "failed"
            /\ quant_errors' = quant_errors + 1
            /\ UNCHANGED tables
       ELSE /\ tables' = [f \in TableNames |->
                 CASE f = "counts_tpm" -> ToCsv(Tpm(valid))
                   [] f = "counts_tpm_filtered" -> ToCsv(filter_zero_count_rows(Tpm(valid)))
                   [] f = "counts_fpkm" -> ToCsv(Fpkm(valid, TotalCounts(count_data)))
                   [] f = "counts_fpkm_filtered" ->
                        ToCsv(filter_zero_count_rows(Fpkm(valid, TotalCounts(count_data))))]
            /\ quant_status' = "ok"
            /\ UNCHANGED quant_errors
  /\ quantQuiet

\* AnalysisTab.calculate_tpm (analysis.py): the TPM table and its filtered
\* variant, or a critical message box
calculate_tpm ==
  /\ quant_status = "none"
  /\ LET valid == ValidRows(count_data) IN
     IF NoValidGenes(valid)
       THEN /\ quant_status' = "failed"
            /\ quant_errors' = quant_errors + 1
            /\ UNCHANGED tables
       ELSE /\ tables' = [tables EXCEPT
                 !["counts_tpm"] = ToCsv(Tpm(valid)),
                 !["counts_tpm_filtered"] = ToCsv(filter_zero_count_rows(Tpm(valid)))]
            /\ quant_status' = "ok"
            /\ UNCHANGED quant_errors
  /\ quantQuiet

\* AnalysisTab.calculate_fpkm (analysis.py): the FPKM table and its filtered
\* variant, or a critical message box
calculate_fpkm ==
  /\ quant_status = "none"
  /\ LET valid == ValidRows(count_data) IN
     IF NoValidGenes(valid)
       THEN /\ quant_status' = "failed"
            /\ quant_errors' = quant_errors + 1
            /\ UNCHANGED tables
       ELSE /\ tables' = [tables EXCEPT
                 !["counts_fpkm"] = ToCsv(Fpkm(valid, TotalCounts(count_data))),
                 !["counts_fpkm_filtered"] =
                    ToCsv(filter_zero_count_rows(Fpkm(valid, TotalCounts(count_data))))]
            /\ quant_status' = "ok"
            /\ UNCHANGED quant_errors
  /\ quantQuiet

InitQuant ==
  /\ PipelineIdle
  /\ PairsIdle
  /\ DataIdle
  /\ \/ count_data \in CountTables /\ gene_lengths \in LengthTables
     \/ count_data = ExampleCounts /\ gene_lengths = [g \in GeneIds |-> ExonLength(g)]
  /\ has_meta \in BOOLEAN
  /\ tables = [f \in TableNames |-> NoTable]
  /\ quant_status = "none"
  /\ quant_errors = 0

NextQuant ==
  \/ calculate_expression_values
  \/ calculate_tpm
  \/ calculate_fpkm

SpecQuant == InitQuant /\ [][NextQuant]_vars

\* ------------------------------------------------------------ properties
Range(q) == {q[n] : n \in 1 .. Len(q)}

IsPrefix(a, b) == Len(a) <= Len(b) /\ SubSeq(b, 1, Len(a)) = a

\* the three stages under the names the checkpoint gives them, and the order
\* the design fixes for them
Align == "hisat2_align"

Count == "feature_counts"

DiffExpr == "pydeseq2_analysis"

FixedOrder == <<Align, Count, DiffExpr>>

Rank(s) == CASE s = Align -> 1 [] s = Count -> 2 [] s = DiffExpr -> 3

\* the ProcessThread objects that have been constructed
Runs == {t \in Threads : th[t].pc # "none"}

\* the stages a run that loaded d is due to execute, in order
Due(d) == LET NotDone(s) == ~CheckpointGet(d, s) IN SelectSeq(FixedOrder, NotDone)

\* the run was cut from outside: QThread.terminate() or the death of the process
Interrupted(r) == r.outcome \in {"terminated", "crashed"}

\* the thread stands inside the executor of a stage
InExecutor(r) == r.pc \in {"al_loop", "al_sort", "fc", "de"}

\* C1: at every moment the stages a run has executed are a prefix of the
\* stages whose flag is not true in the checkpoint it loaded, in the order
\* align, count, diffexpr; a run that reaches its end has executed exactly
\* those stages; and a run that loaded align = true never invokes the aligner
\* (HISAT2 or samtools).
C1_ExecutesExactlyUnfinished ==
  \A t \in Runs :
    LET r == th[t] IN
    /\ IsPrefix(r.started, Due(r.loaded))
    /\ r.outcome = "finished" => r.started = Due(r.loaded)
    /\ CheckpointGet(r.loaded, Align) => Range(r.calls) \cap {"hisat2", "samtools"} = {}

\* a run that loaded {align: true, count: false, diffexpr: false} has ended
\* with finished after executing count and then diffexpr
C1_Witness ==
  \E t \in Runs :
    /\ th[t].outcome = "finished"
    /\ th[t].loaded = [s \in Stages |-> s = Align]
    /\ th[t].started = <<Count, DiffExpr>>
    /\ th[t].calls[1] = "featureCounts"

\* C2: in every run the stages are started in the order align < count <
\* diffexpr, none twice; count is started only if align was true in the loaded
\* checkpoint or succeeded earlier in the run, and diffexpr only if count was
\* true in the loaded checkpoint or succeeded earlier in the run.
C2_FixedStageOrder ==
  \A t \in Runs :
    LET r == th[t]
        done == Trues(r.loaded) \cup r.succeeded IN
    /\ \A m, n \in 1 .. Len(r.started) : m < n => Rank(r.started[m]) < Rank(r.started[n])
    /\ Count \in Range(r.started) => Align \in done
    /\ DiffExpr \in Range(r.started) => Count \in done

\* a run started all three stages and its last stage failed after
\* cancellation had been requested
C2_Witness ==
  \E t \in Runs :
    /\ th[t].started = <<Align, Count, DiffExpr>>
    /\ th[t].outcome = "failed"
    /\ ~th[t].is_running

\* C3 as stated: a run that loaded a checkpoint with all three flags true
\* makes no external process invocation of any kind.
C3_NoInvocationOfAnyKind ==
  \A t \in Runs : Trues(th[t].loaded) = Stages => th[t].calls = <<>>

\* C3, amended: a run that loaded a checkpoint with all three flags true
\* starts no stage and invokes no stage tool; the only processes it runs are
\* the at most two git processes of the commit step, which exists in
\* lg_transhub.py only; it emits no error and, unless it is cut from outside,
\* ends with exactly one finished notification.
C3_NoStageToolWhenAllDone ==
  \A t \in Runs :
    LET r == th[t] IN
    Trues(r.loaded) = Stages =>
      /\ r.started = <<>>
      /\ Range(r.calls) \subseteq {"git"}
      /\ Len(r.calls) <= 2
      /\ module = "trans_hub" => r.calls = <<>>
      /\ r.errors = 0
      /\ r.pc = "dead" => r.outcome = "finished" \/ Interrupted(r)
      /\ r.outcome = "finished" => r.finished = 1

\* a run of lg_transhub.py that loaded all three flags true has ended with
\* finished after `git add` and `git commit`
C3_Witness ==
  \E t \in Runs :
    /\ Trues(th[t].loaded) = Stages
    /\ th[t].outcome = "finished"
    /\ th[t].calls = <<"git", "git">>

\* C4: the run started after a crash does not execute again a stage whose
\* checkpoint write the crashed run had completed (the crash may have come
\* while the file was being rewritten for a later stage); runs whose own read
\* of the file raised are left aside.
C4_NoRepeatAfterCrash ==
  \A t \in Runs :
    ~th[t].ioFault => Range(th[t].started) \cap th[t].mustSkip = {}

\* C5 as stated: once a stage has succeeded and the thread has left
\* save_checkpoint, the file holds the in-memory checkpoint with the stage's
\* flag true, whatever happened to the write; the file is as it was at the
\* start of the stage while an executor runs and after it failed or was
\* cancelled, and as it was at the start of the run while no stage has
\* succeeded.
C5_RewrittenAfterEverySuccess ==
  \A t \in Runs :
    LET r == th[t]
        file == checkpoint_file[r.proj] IN
    /\ (r.succeeded # {} /\ r.pc # "save_dump" /\ ~Interrupted(r)) =>
         file = JsonFile(r.checkpoint) /\ r.succeeded \subseteq Trues(r.checkpoint)
    /\ (InExecutor(r) \/ r.outcome \in {"failed", "cancelled"}) => file = r.snap
    /\ r.succeeded = {} => file = r.file0

\* C5, amended: the same, for the runs in which no write of the checkpoint
\* file has raised; the flag is set in memory after every success, and a write
\* that raises is only logged.
C5_RewrittenUnlessWriteRaises ==
  \A t \in Runs :
    LET r == th[t]
        file == checkpoint_file[r.proj] IN
    /\ r.succeeded \subseteq Trues(r.checkpoint)
    /\ (r.succeeded # {} /\ r.pc # "save_dump" /\ ~Interrupted(r) /\ ~r.wfail) =>
         file = JsonFile(r.checkpoint)
    /\ (InExecutor(r) \/ r.outcome \in {"failed", "cancelled"}) => file = r.snap
    /\ r.succeeded = {} => file = r.file0

\* align has succeeded in this run, its write went through, and the count
\* stage is running over a file that already marks align
C5_Witness ==
  \E t \in Runs :
    /\ th[t].pc = "fc"
    /\ th[t].succeeded = {Align}
    /\ ~th[t].wfail
    /\ th[t].file0 = AbsentFile
    /\ checkpoint_file[th[t].proj] = JsonFile([s \in {Align} |-> TRUE])

\* C6: when a stage executor reports failure the run is over; the failing
\* stage is the last one started and is not marked succeeded; the checkpoint
\* file is what it was when the failing stage began; exactly one error and no
\* finished notification was emitted.
C6_FailureStopsRun ==
  \A t \in Runs :
    LET r == th[t] IN
    r.outcome = "failed" =>
      /\ r.pc = "dead"
      /\ r.errors = 1
      /\ r.finished = 0
      /\ checkpoint_file[r.proj] = r.snap
      /\ r.started # <<>>
      /\ r.started[Len(r.started)] = StageOrder[r.k]
      /\ StageOrder[r.k] \notin r.succeeded

\* featureCounts exited non-zero after align had succeeded and been
\* checkpointed in the same run
C6_Witness ==
  \E t \in Runs :
    /\ th[t].outcome = "failed"
    /\ th[t].started = <<Align, Count>>
    /\ th[t].calls[Len(th[t].calls)] = "featureCounts"
    /\ th[t].errors = 1
    /\ FileTrues(checkpoint_file[th[t].proj]) = {Align}

\* C7: a flag that was true in a persisted checkpoint is true in every
\* readable checkpoint file the engine leaves later.
C7_FlagsNeverReverted ==
  \A p \in Projects :
    checkpoint_file[p].kind = "json" => everTrue[p] \subseteq FileTrues(checkpoint_file[p])

\* C8: once cancellation has been requested of a thread, it starts neither
\* the count nor the diffexpr stage, and it invokes HISAT2 on no further
\* sample.
C8_CancelObservedBetweenStages ==
  [][\A t \in Threads :
       (th[t].pc # "none" /\ ~th[t].is_running) =>
         /\ Len(th'[t].started) > Len(th[t].started) =>
              th'[t].started[Len(th'[t].started)] \notin {Count, DiffExpr}
         /\ Len(th'[t].calls) > Len(th[t].calls) =>
              th'[t].calls[Len(th'[t].calls)] # "hisat2"]_vars

\* C9: after a run ended by cancellation (the poll in the sample loop, or
\* terminate() after the request) the checkpoint file marks every stage it
\* marked before the run or that the run checkpointed, and no stage beyond
\* those that succeeded; runs with a file operation that raised are left
\* aside.
C9_CancelKeepsCheckpoint ==
  \A t \in Runs :
    LET r == th[t]
        marked == FileTrues(checkpoint_file[r.proj]) IN
    (r.outcome \in {"cancelled", "terminated"} /\ ~r.ioFault /\ ~r.wfail) =>
      /\ FileTrues(r.file0) \cup r.saved \subseteq marked
      /\ marked \subseteq FileTrues(r.file0) \cup r.succeeded

\* C10: no two live ProcessThread objects work on the same project.
C10_OneRunPerProject ==
  \A t, u \in Threads :
    (t # u /\ Alive(t) /\ Alive(u)) => th[t].proj # th[u].proj

\* the executions that have enumerated their pairs
Enumerated == {e \in Execs : conditions[e] # <<>>}

\* the conditions of the design, as a set
DesignLabels == {design[n] : n \in DOMAIN design}

\* how many of the comparisons of execution e compare a with b, either way round
TimesCompared(e, a, b) ==
  Cardinality({k \in DOMAIN comparisons[e] :
                 {comparisons[e][k][1], comparisons[e][k][2]} = {a, b}})

\* C11: for a design with n >= 2 distinct condition labels an execution makes
\* exactly n(n-1)/2 comparisons, every unordered pair of distinct labels is
\* compared exactly once, and no label is compared with itself
C11_EveryUnorderedPairOnce ==
  \A e \in Enumerated :
    LET n == Cardinality(DesignLabels) IN
    n >= 2 =>
      /\ 2 * Len(comparisons[e]) = n * (n - 1)
      /\ \A a, b \in DesignLabels : a # b => TimesCompared(e, a, b) = 1
      /\ \A k \in DOMAIN comparisons[e] : comparisons[e][k][1] # comparisons[e][k][2]
      /\ \A k \in DOMAIN comparisons[e] :
           {comparisons[e][k][1], comparisons[e][k][2]} \subseteq DesignLabels

\* an execution over a design with the labels X, Y and Z has made its three
\* comparisons
C11_Witness ==
  \E e \in Enumerated :
    /\ DesignLabels = {"X", "Y", "Z"}
    /\ {{comparisons[e][k][1], comparisons[e][k][2]} : k \in DOMAIN comparisons[e]}
         = {{"X", "Y"}, {"X", "Z"}, {"Y", "Z"}}
    /\ Len(comparisons[e]) = 3

\* C12: two executions over the same design list the same pairs in the same
\* order with the same orientation, and so give the result files and the
\* comparison tags the same names
C12_SameEnumerationEveryExecution ==
  \A e1, e2 \in Enumerated :
    /\ comparisons[e1] = comparisons[e2]
    /\ [k \in DOMAIN comparisons[e1] |-> ResultsFile(comparisons[e1][k])]
         = [k \in DOMAIN comparisons[e2] |-> ResultsFile(comparisons[e2][k])]
    /\ [k \in DOMAIN comparisons[e1] |-> ComparisonTag(comparisons[e1][k])]
         = [k \in DOMAIN comparisons[e2] |-> ComparisonTag(comparisons[e2][k])]

\* the file has been written
Written(f) == tables[f].written

\* the values a table holds for sample s, row by row
Column(t, s) == [k \in DOMAIN t |-> t[k].values[s]]

\* the gene ids of a table, as a set
GenesOf(t) == {t[k].gene : k \in DOMAIN t}

\* the genes present in both the count table and the length table
Joined == GenesOf(count_data) \cap DOMAIN gene_lengths

\* the raw count the count table holds for gene g in sample s
CountOf(g, s) == LET k == CHOOSE k \in DOMAIN count_data : count_data[k].gene = g
                 IN  count_data[k].counts[s]

\* reads per kilobase: count / (length / 1000)
RpkOf(g, s) == Div(Num(CountOf(g, s)), Div(Num(gene_lengths[g]), Num(1000)))

\* the sum of f over the genes of G
RECURSIVE SumOver(_, _)
SumOver(f, G) ==
  IF G = {} THEN Num(0)
  ELSE LET g == CHOOSE g \in G : TRUE IN Add(f[g], SumOver(f, G \ {g}))

\* the total RPK of sample s over the retained genes
TotalRpk(s) == SumOver([g \in Joined |-> RpkOf(g, s)], Joined)

\* the total raw count of sample s over the retained genes
RetainedDepth(s) == SumOver([g \in Joined |-> Num(CountOf(g, s))], Joined)

\* the total raw count of sample s over every gene of the count table
WholeDepth(s) ==
  SumOver([g \in GenesOf(count_data) |-> Num(CountOf(g, s))], GenesOf(count_data))

\* the worked example is the input
IsExample == count_data = ExampleCounts /\ DOMAIN gene_lengths = GeneIds

\* C13: every sample column of every TPM table that is written sums to
\* 1,000,000 over the retained genes
C13_TpmColumnsSumToMillion ==
  Written("counts_tpm") =>
    \A s \in SampleColumns :
      ColumnSum(Column(tables["counts_tpm"].rows, s), Len(tables["counts_tpm"].rows)) = Million

\* the columns of samples whose total RPK is not zero do sum to 1,000,000
TpmSumsWhereTotalNonzero ==
  Written("counts_tpm") =>
    \A s \in SampleColumns :
      TotalRpk(s) # Num(0) =>
        ColumnSum(Column(tables["counts_tpm"].rows, s), Len(tables["counts_tpm"].rows)) = Million

\* C14: in a TPM table every value is RPK(g,s) / (total RPK of s / 1e6) with
\* RPK = count / (length / 1000); for the worked example the first sample reads
\* 500000, 500000, 0 and the second 1e6*50/120, 1e6*50/120, 1e6*20/120
C14_TpmFormula ==
  Written("counts_tpm") =>
    LET t == tables["counts_tpm"].rows IN
    /\ \A k \in DOMAIN t : \A s \in SampleColumns :
         t[k].values[s] = Div(RpkOf(t[k].gene, s), Div(TotalRpk(s), Million))
    /\ IsExample =>
         /\ Column(t, "s1") = <<Num(500000), Num(500000), Num(0)>>
         /\ Column(t, "s2") = <<Frac(50000000, 120), Frac(50000000, 120), Frac(20000000, 120)>>

\* the TPM table of the worked example has been written
C14_Witness ==
  /\ IsExample
  /\ Written("counts_tpm")
  /\ Len(tables["counts_tpm"].rows) = 3
  /\ tables["counts_tpm"].rows[3].values["s2"] = Frac(500000, 3)

\* C15 as stated: in an FPKM table every value is RPK(g,s) / (T(s) / 1e6) where
\* T(s) sums the raw counts of s over the retained genes only
C15_DepthOverRetainedGenes ==
  Written("counts_fpkm") =>
    LET t == tables["counts_fpkm"].rows IN
    \A k \in DOMAIN t : \A s \in SampleColumns :
      t[k].values[s] = Div(RpkOf(t[k].gene, s), Div(RetainedDepth(s), Million))

\* C15 as amended: in an FPKM table every value is RPK(g,s) / (T(s) / 1e6)
\* where T(s) sums the raw counts of s over every gene of the count table,
\* the genes absent from the length table included
C15_DepthOverAllGenes ==
  Written("counts_fpkm") =>
    LET t == tables["counts_fpkm"].rows IN
    \A k \in DOMAIN t : \A s \in SampleColumns :
      t[k].values[s] = Div(RpkOf(t[k].gene, s), Div(WholeDepth(s), Million))

\* an FPKM table has been written for a count table in which a gene without a
\* length has reads, and a retained gene's value shows them in the depth
C15_Witness ==
  /\ Written("counts_fpkm")
  /\ \E s \in SampleColumns :
       /\ WholeDepth(s) # RetainedDepth(s)
       /\ \E k \in DOMAIN tables["counts_fpkm"].rows :
            /\ tables["counts_fpkm"].rows[k].values[s] # Num(0)
            /\ tables["counts_fpkm"].rows[k].values[s] =
                 Div(RpkOf(tables["counts_fpkm"].rows[k].gene, s), Div(WholeDepth(s), Million))

\* C16: the TPM table and the FPKM table hold the same gene ids, namely the
\* genes present in both the count table and the length table
C16_SameGenesInBothOutputs ==
  /\ Written("counts_tpm") =>
       /\ GenesOf(tables["counts_tpm"].rows) = Joined
       /\ Len(tables["counts_tpm"].rows) = Cardinality(Joined)
  /\ Written("counts_fpkm") =>
       /\ GenesOf(tables["counts_fpkm"].rows) = Joined
       /\ Len(tables["counts_fpkm"].rows) = Cardinality(Joined)
  /\ Written("counts_tpm") /\ Written("counts_fpkm") =>
       GenesOf(tables["counts_tpm"].rows) = GenesOf(tables["counts_fpkm"].rows)

\* both tables have been written from a count table and a length table that
\* each hold a gene the other lacks
C16_Witness ==
  /\ Written("counts_tpm")
  /\ Written("counts_fpkm")
  /\ GenesOf(count_data) \ DOMAIN gene_lengths # {}
  /\ DOMAIN gene_lengths \ GenesOf(count_data) # {}
  /\ Joined # {}

\* a table holds the result of a division by zero
HasNaN(t) == \E k \in DOMAIN t : \E s \in SampleColumns : t[k].values[s] \in {NaN, Inf}

\* C17: when the total RPK or the total raw count of a sample is zero the
\* computation reports an error, and no written table holds the result of a
\* division by zero
C17_ZeroTotalIsAnError ==
  /\ \A f \in TableNames : Written(f) => ~HasNaN(tables[f].rows)
  /\ quant_status # "none" /\ Joined # {}
       /\ (\E s \in SampleColumns : TotalRpk(s) = Num(0) \/ WholeDepth(s) = Num(0))
       => quant_status = "failed" /\ quant_errors > 0

\* the row has a number other than 0 in at least one sample column
HasNonzero(row) == \E s \in SampleColumns : row.values[s] \notin {Num(0), NaN}

\* the zero-filtered variant of each table and the table it is made from
FilteredOf == [f \in {"counts_tpm", "counts_fpkm"} |->
                 IF f = "counts_tpm" THEN "counts_tpm_filtered" ELSE "counts_fpkm_filtered"]

\* C18: a zero-filtered table holds exactly the rows of its table that have a
\* nonzero value in at least one sample column, in the same order, so it is
\* shorter by the number of rows that are 0 in every column; the worked
\* example loses no row
C18_FilterKeepsNonzeroRows ==
  \A f \in DOMAIN FilteredOf :
    Written(FilteredOf[f]) =>
      /\ Written(f)
      /\ tables[FilteredOf[f]].rows = SelectSeq(tables[f].rows, HasNonzero)
      /\ Len(tables[FilteredOf[f]].rows) =
           Len(tables[f].rows) - Cardinality({k \in DOMAIN tables[f].rows : ~HasNonzero(tables[f].rows[k])})
      /\ IsExample => tables[FilteredOf[f]].rows = tables[f].rows

\* a filtered table has been written that lost a row and kept another
C18_Witness ==
  \E f \in DOMAIN FilteredOf :
    /\ Written(FilteredOf[f])
    /\ tables[FilteredOf[f]].rows # <<>>
    /\ Len(tables[FilteredOf[f]].rows) < Len(tables[f].rows)

\* C19: when no gene id is in both the count table and the length table the
\* computation ends with an error message and writes none of the four tables
C19_EmptyJoinFails ==
  quant_status # "none" /\ Joined = {} =>
    /\ quant_status = "failed"
    /\ quant_errors = 1
    /\ \A f \in TableNames : ~Written(f)

\* the computation has ended on a count table and a length table that are
\* both non-empty and share no gene
C19_Witness ==
  /\ quant_status = "failed"
  /\ count_data # <<>>
  /\ DOMAIN gene_lengths # {}
  /\ Joined = {}
  /\ has_meta

\* the align stage of the run ended on a non-zero exit status of HISAT2 or of
\* samtools sort
AlignToolFailed(r) ==
  /\ r.outcome = "failed"
  /\ r.started # <<>>
  /\ r.started[Len(r.started)] = Align
  /\ r.calls # <<>>

\* C20: when HISAT2 or samtools sort exits non-zero in the align stage, the
\* stage fails at once: the failing call is the last tool invocation of the
\* run, for that sample and for every later sample; one error is reported,
\* the stage is not marked succeeded and no further stage is started
C20_AlignToolFailureStopsStage ==
  /\ [](\A t \in Runs :
          LET r == th[t] IN
          AlignToolFailed(r) =>
            /\ r.pc = "dead"
            /\ r.errors = 1
            /\ r.finished = 0
            /\ Align \notin r.succeeded
            /\ r.started = <<Align>>
            /\ r.i \in Samples
            /\ Len(r.calls) \in {2 * r.i - 1, 2 * r.i}
            /\ \A n \in DOMAIN r.calls :
                 r.calls[n] = IF n % 2 = 1 THEN "hisat2" ELSE "samtools")
  /\ [][\A t \in Threads :
          AlignToolFailed(th[t]) /\ th'[t].pc # "load" =>
            /\ th'[t].calls = th[t].calls
            /\ th'[t].started = th[t].started
            /\ AlignToolFailed(th'[t])]_vars

\* HISAT2 exited non-zero on the second sample after the first sample had been
\* aligned and sorted
C20_Witness ==
  \E t \in Runs :
    /\ AlignToolFailed(th[t])
    /\ th[t].calls = <<"hisat2", "samtools", "hisat2">>
    /\ th[t].i = 2

\* the tools of the align stage
AlignTools == {"hisat2", "samtools"}

\* the sample the n-th invocation of the align stage works on: the samples are
\* taken in list order, two invocations each
SampleOfCall(n) == (n + 1) \div 2

\* C21: within one run the align stage is strictly sequential: the samples
\* are taken in list order, each sample's HISAT2 call has returned before its
\* samtools sort starts, its SAM file exists when the sort starts and is
\* removed only by the step in which the sort returned, sample i+1 is not
\* started before sample i is finished, and no step of a stage holds more
\* than one tool invocation (the git calls that end run() are made one after
\* the other inside run_end)
C21_AlignIsSequential ==
  /\ [](\A t \in Runs :
          LET r == th[t] IN
          /\ \A n \in DOMAIN r.calls :
               r.calls[n] \in AlignTools =>
                 /\ r.calls[n] = IF n % 2 = 1 THEN "hisat2" ELSE "samtools"
                 /\ SampleOfCall(n) \in Samples
                 /\ r.k = StageIndex(Align) => SampleOfCall(n) <= r.i
          /\ r.pc = "al_loop" => Len(r.calls) = 2 * (r.i - 1)
          /\ r.pc = "al_sort" =>
               /\ Len(r.calls) = 2 * r.i - 1
               /\ r.i \in r.sam
          /\ r.k = StageIndex(Align) => \A j \in r.sam : j <= r.i)
  /\ [][\A t \in Threads :
          th[t].pc # "none" /\ th'[t].pc # "load" =>
            /\ th[t].pc # "post" => Len(th'[t].calls) <= Len(th[t].calls) + 1
            /\ IsPrefix(th[t].calls, th'[t].calls)
            /\ th[t].sam \ th'[t].sam # {} =>
                 /\ th'[t].calls = Append(th[t].calls, "samtools")
                 /\ th[t].sam \ th'[t].sam = {th[t].i}
                 /\ th'[t].i = th[t].i + 1]_vars

\* two samples have been aligned and sorted one after the other and both SAM
\* files are gone
C21_Witness ==
  \E t \in Runs :
    /\ th[t].calls = <<"hisat2", "samtools", "hisat2", "samtools">>
    /\ th[t].i = 3
    /\ th[t].sam = {}

\* C22: the count stage succeeds, and its flag is set, exactly when its inputs
\* were present and featureCounts exited with status 0, whatever became of the
\* expression values: a missing input or a non-zero status ends the stage
\* before any expression value is computed, and a failed computation of the
\* expression values does not fail the stage
C22_CountSucceedsIffToolSucceeds ==
  \A t \in Runs :
    LET r == th[t] IN
    /\ Count \in r.succeeded => r.counted = "rc_zero" /\ CheckpointGet(r.checkpoint, Count)
    /\ r.counted = "rc_zero" /\ ~Interrupted(r) =>
         \/ r.pc = "save_open" /\ r.k = StageIndex(Count)
         \/ Count \in r.succeeded
    /\ r.counted \in {"no_input", "rc_nonzero"} =>
         /\ r.outcome = "failed"
         /\ r.pc = "dead"
         /\ r.errors = 1
         /\ Count \notin r.succeeded
         /\ ~CheckpointGet(r.checkpoint, Count)
         /\ r.quant = "none"
    /\ r.counted = "no_input" => r.calls = <<>> \/ r.calls[Len(r.calls)] # "featureCounts"
    /\ r.counted \in {"rc_nonzero", "rc_zero"} =>
         \E n \in DOMAIN r.calls : r.calls[n] = "featureCounts"
    /\ r.quant # "none" => r.counted = "rc_zero" /\ module = "lg_transhub"
    /\ r.quant = "failed" /\ r.outcome = "failed" => Count \in r.succeeded

\* a run whose expression values could not be computed has finished with the
\* count flag in checkpoint.json
C22_Witness ==
  \E t \in Runs :
    /\ th[t].quant = "failed"
    /\ th[t].outcome = "finished"
    /\ Count \in th[t].succeeded
    /\ Count \in FileTrues(checkpoint_file[th[t].proj])

\* hisat2_align has returned True for the project of SpecData
Aligned == data_pc \in {"aligned", "counted", "relabelled"}

\* no two samples of the project have the same name
UniqueNames ==
  \A j, k \in DOMAIN project_samples : project_samples[j] = project_samples[k] => j = k

\* C23: after the align stage has succeeded there are as many BAM files as the
\* project has samples, and every sample has the file named after it, made
\* from its own reads; this for every project the New Project dialog accepts
C23_OneBamPerSample ==
  Aligned =>
    /\ Cardinality(DOMAIN bam_dir) = Len(project_samples)
    /\ \A k \in DOMAIN project_samples :
         /\ project_samples[k] \in DOMAIN bam_dir
         /\ bam_dir[project_samples[k]] = k

\* for the projects whose sample names are distinct, every sample does have
\* its own BAM file
OneBamPerSampleIfUnique == UniqueNames => C23_OneBamPerSample

\* C24: the columns of the persisted TPM and FPKM tables are Geneid followed by
\* exactly one column per sample that has a BAM file, and no metadata column
C24_OneColumnPerSample ==
  expr_header.written =>
    LET cols == expr_header.columns IN
    /\ cols # <<>>
    /\ cols[1] = Geneid
    /\ Len(cols) = 1 + Cardinality(DOMAIN bam_dir)
    /\ {cols[n] : n \in 2 .. Len(cols)} = {BamCol(name) : name \in DOMAIN bam_dir}

\* C30: after the relabelling every count column carries the name of the
\* sample whose BAM file it was counted from, for every order in which the
\* BAM files were listed
C30_LabelIsSampleOfArtifact ==
  data_pc = "relabelled" =>
    \A n \in DOMAIN de_columns :
      /\ de_columns[n].source = BamCol(de_columns[n].label)
      /\ bam_dir[de_columns[n].label] = n

\* with distinct sample names the labels are right when os.listdir returned
\* the files in the order of the sample list
LabelsRightIfListedInOrder ==
  /\ data_pc = "relabelled"
  /\ UniqueNames
  /\ SubSeq(count_header, Len(FixedCols) + 1, Len(count_header))
       = [n \in DOMAIN project_samples |-> BamCol(project_samples[n])]
  => C30_LabelIsSampleOfArtifact

\* the rows of the combined table of execution e that hold gene g under tag
TaggedRows(e, g, tag) ==
  {n \in DOMAIN all_results[e] :
     all_results[e][n].geneid = g /\ all_results[e][n].comparison = tag}

\* the gene ids for which the combined table of execution e holds results
GenesReported(e) == {all_results[e][n].geneid : n \in DOMAIN all_results[e]}

\* C25: with at least two condition labels the combined table is the
\* concatenation of the results of the comparisons: for every pair (A, B) that
\* was compared and every gene with results there is exactly one row tagged
\* A_vs_B, every row carries the tag of a compared pair, the rows of a pair
\* stand together in the order of the pairs, and the results files written are
\* exactly those of the tags that occur in the combined table
C25_CombinedIsConcatenation ==
  \A e \in Enumerated :
    Cardinality(DesignLabels) >= 2 =>
      /\ \A k \in DOMAIN comparisons[e] : \A g \in GenesReported(e) :
           Cardinality(TaggedRows(e, g, ComparisonTag(comparisons[e][k]))) = 1
      /\ Len(all_results[e]) = Len(comparisons[e]) * Cardinality(GenesReported(e))
      /\ \A n \in DOMAIN all_results[e] :
           all_results[e][n].comparison
             = ComparisonTag(comparisons[e][((n - 1) \div Cardinality(GenesReported(e))) + 1])
      /\ result_files[e]
           = {all_results[e][n].comparison \o <<"_results.txt">> : n \in DOMAIN all_results[e]}

\* an execution over three labels has combined the results of three
\* comparisons of two genes each and written three results files
C25_Witness ==
  \E e \in Enumerated :
    /\ Len(comparisons[e]) = 3
    /\ Len(all_results[e]) = 6
    /\ Cardinality(result_files[e]) = 3

\* a write of the checkpoint file has raised in this step of thread t
WriteRaised(t) == th[t].pc \in {"save_open", "save_dump"} /\ ~th[t].wfail /\ th'[t].wfail

NoStageTwice(q) == \A m, n \in DOMAIN q : q[m] = q[n] => m = n

\* C26: a write of the checkpoint file that raises does not end the run: the
\* step in which it raises emits no error, leaves the outcome open and moves
\* to the next stage's test (or to the end of run()) with the flag of the
\* stage set in the dict the run holds; from then on the run still executes
\* the stages that were not true in the checkpoint it loaded, in order, none
\* of them twice, and a run that reaches its end has executed all of them.
C26_WriteFailureIsNotFatal ==
  /\ [](\A t \in Runs :
          LET r == th[t] IN
          r.wfail =>
            /\ IsPrefix(r.started, Due(r.loaded))
            /\ NoStageTwice(r.started)
            /\ r.succeeded \subseteq Trues(r.checkpoint)
            /\ r.outcome = "finished" => r.started = Due(r.loaded) /\ r.errors = 0)
  /\ [][\A t \in Threads :
          WriteRaised(t) =>
            /\ th'[t].outcome = "none"
            /\ th'[t].errors = th[t].errors
            /\ th'[t].started = th[t].started
            /\ StageOrder[th[t].k] \in Trues(th'[t].checkpoint)
            /\ IF th[t].k < 3
                 THEN th'[t].pc = "gate" /\ th'[t].k = th[t].k + 1
                 ELSE th'[t].pc = "post"]_vars

\* a run over a project without checkpoint file has ended with the success
\* outcome after all three stages, although the write of the align
\* flag raised
C26_Witness ==
  \E t \in Runs :
    /\ th[t].wfail
    /\ th[t].outcome = "finished"
    /\ th[t].started = FixedOrder
    /\ th[t].file0 = AbsentFile
    /\ Align \notin th[t].saved

\* no ProcessThread is running and the GUI thread is between two handlers
NoRunActive == hubpc = "idle" /\ \A t \in Threads : ~Alive(t)

\* at least one stage flag of the project's checkpoint.json is not true
Unfinished(p) == FileTrues(checkpoint_file[p]) # Stages

\* C27: whenever no run is active and a project has a stage whose checkpoint
\* flag is not true, selecting the project in the table enables Start
\* Processing.
C27_UnfinishedProjectCanBeSelectedAndStarted ==
  [][\A p \in Projects :
       (NoRunActive /\ Unfinished(p) /\ selected_project_row # p /\ selected_project_row' = p)
         => process_btn']_vars

\* C28: a project is 'completed', in memory or in its project.json, only if
\* all three stage flags of its checkpoint.json are true.
C28_CompletedOnlyIfAllFlagsTrue ==
  \A p \in Projects :
    (projects[p] = "completed" \/ project_json[p] = "completed") =>
      FileTrues(checkpoint_file[p]) = Stages

\* the status in memory and in project.json of every project but p is kept
OthersKept(p) ==
  \A q \in Projects \ {p} : projects'[q] = projects[q] /\ project_json'[q] = project_json[q]

\* the step is the GUI thread handling the end of a run: a queued finished or
\* error signal, or the end of stop_process
RunEndHandled ==
  \/ hubpc = "idle" /\ sigq # <<>> /\ sigq' = Tail(sigq)
  \/ hubpc = "stopping" /\ hubpc' = "idle"

\* the project of the run whose end the step handles
EndedProject == IF hubpc = "stopping" THEN th[process_thread].proj ELSE th[Head(sigq)[2]].proj

\* C29: when the end of a run is handled (finished, error or stopped), the
\* status change goes to the project the run processed, whichever row is
\* selected: the project of the run leaves 'processing', and the status and
\* project.json of every other project are unchanged.
C29_StatusGoesToTheProjectOfTheRun ==
  [][RunEndHandled =>
       /\ OthersKept(EndedProject)
       /\ projects[EndedProject] = "processing" => projects'[EndedProject] # "processing"]_vars

====
